---- MODULE Spec2Model ----
(***************************************************************************)
(* A model of four lint rules of the repository:                           *)
(*   no-duplicate-headings-in-section, no-heading-indent                   *)
(*     (packages/remark-lint-no-duplicate-headings-in-section/index.js)    *)
(*   first-heading-level, unordered-list-marker-style                      *)
(*     (packages/remark-lint-first-heading-level/index.js)                 *)
(* Every rule is a visitor run over the nodes of a tree in pre-order.  The *)
(* tree is the input: each step the environment hands the visitor the next *)
(* node of the traversal, and the action is the whole body of the visitor. *)
(* Each rule has its own specification (SpecDup, SpecIndent, SpecFirst,    *)
(* SpecMarker); the variables a rule does not use keep their initial value.*)
(***************************************************************************)
EXTENDS Integers, Sequences, FiniteSets

VARIABLES
  nodes,      \* the nodes handed to the visitor so far, in pre-order
  messages,   \* the diagnostics given to file.message, in order
  stack,      \* no-duplicate-headings-in-section: `stack`
  option,     \* the rule's option (first-heading-level, unordered-list-marker-style)
  preferred,  \* first-heading-level / unordered-list-marker-style: `preferred`
  pc          \* "visit": traversal running; "exit": visitor returned EXIT;
              \* "failed": file.fail threw; "threw": a TypeError ended the run

vars == <<nodes, messages, stack, option, preferred, pc>>

\* ------------------------------------------------------------------ bounds

\* Longest stream of heading nodes given to no-duplicate-headings-in-section.
MaxHeadings == 4

\* ------------------------------------------------------------ shared helpers

\* A node without a source position (unist-util-generated).
NoPoint == [line |-> 0, column |-> 0]

generated(node) == node.start = NoPoint

\* Mutant of Slice: nothing is cut off.
SliceKeepsAll(s, end) == s

\* Array.prototype.slice(0, end) on a sequence.
Slice(s, end) == SubSeq(s, 1, IF end < Len(s) THEN end ELSE Len(s))

\* ------------------------------------------------------------------------
\* no-duplicate-headings-in-section
\* ------------------------------------------------------------------------

\* Heading depths and heading texts the input is drawn from.
Depths == {1, 2, 3}
Texts == {"a", "A", "b"}

\* Mutant of ToUpperCase: the text is used as the key unchanged.
ToUpperCaseSkipped(s) == s

\* String.prototype.toUpperCase on the texts of the model.
ToUpperCase(s) == CASE s = "a" -> "A" [] s = "b" -> "B" [] OTHER -> s

Keys == {ToUpperCase(t) : t \in Texts}

\* A scope object `{}`: key -> index in `nodes` of the recorded heading,
\* 0 where the key is not set.  alloc = FALSE is an array hole (the slot was
\* never assigned).
EmptyScope == [alloc |-> TRUE, map |-> [k \in Keys |-> 0]]
Hole == [alloc |-> FALSE, map |-> [k \in Keys |-> 0]]

\* stack[index], undefined (a hole) beyond the length.
SlotAt(s, index) == IF index + 1 <= Len(s) THEN s[index + 1] ELSE Hole

\* Mutant of SetSlot: the slots skipped over are allocated too.
SetSlotFilling(s, index, scope) ==
  [i \in 1..(IF index + 1 > Len(s) THEN index + 1 ELSE Len(s)) |->
     IF i = index + 1 THEN scope
     ELSE IF i <= Len(s) THEN s[i] ELSE EmptyScope]

\* stack[index] = scope: assigning past the end leaves holes in between.
SetSlot(s, index, scope) ==
  [i \in 1..(IF index + 1 > Len(s) THEN index + 1 ELSE Len(s)) |->
     IF i = index + 1 THEN scope ELSE SlotAt(s, i - 1)]

\* Mutant of Record: a key that is already set keeps its first heading.
RecordOnce(scope, value, self) ==
  IF scope.map[value] # 0 THEN scope ELSE [scope EXCEPT !.map[value] = self]

\* scope[value] = node
Record(scope, value, self) == [scope EXCEPT !.map[value] = self]

\* pointStart(node) then stringifyPosition: line:column of a positioned node.
\* For a node without position the outcome depends on the installed
\* unist-util-position (a point of nulls, printed 1:1, or undefined, printed
\* as the empty text); `np` is that outcome.
PlaceOutcomes == {<<1, 1>>, <<>>}
stringifyPosition(node, np) ==
  IF generated(node) THEN np ELSE <<node.start.line, node.start.column>>

\* The heading nodes the parser can hand over next: a positioned heading
\* starts on its own line, in column 1; a generated one has no position.
HeadingInputs ==
  LET n == Len(nodes) + 1 IN
  { [type |-> "heading", depth |-> d, text |-> t, start |-> p] :
      d \in Depths, t \in Texts,
      p \in {NoPoint, [line |-> 2 * n - 1, column |-> 1]} }

\* The visitor of no-duplicate-headings-in-section.
VisitHeading(node, np) ==
  LET depth == node.depth
      value == ToUpperCase(node.text)
      index == depth - 1
      self == Len(nodes) + 1
      stack1 == IF SlotAt(stack, index).alloc
                  THEN stack ELSE SetSlot(stack, index, EmptyScope)
      scope == SlotAt(stack1, index)
      duplicate == scope.map[value]
      stack2 == SetSlot(stack1, index, Record(scope, value, self))
  IN /\ nodes' = Append(nodes, node)
     /\ messages' =
          IF ~generated(node) /\ duplicate # 0
            THEN Append(messages,
                   [node |-> self, duplicate |-> duplicate,
                    place |-> stringifyPosition(nodes[duplicate], np)])
            ELSE messages
     /\ stack' = Slice(stack2, depth)
     /\ UNCHANGED <<option, preferred, pc>>

NoOption == [kind |-> "undefined", num |-> 0, str |-> "", bool |-> FALSE]

InitDup ==
  /\ nodes = <<>>
  /\ messages = <<>>
  /\ stack = <<>>
  /\ option = NoOption
  /\ preferred = NoOption
  /\ pc = "visit"

NextDup ==
  /\ Len(nodes) < MaxHeadings
  /\ \E node \in HeadingInputs : \E np \in PlaceOutcomes : VisitHeading(node, np)

SpecDup == InitDup /\ [][NextDup]_vars

\* ---------------------------------------------- claims: duplicate headings

\* Vocabulary of the claims, over the headings visited so far.
Visited == 1..Len(nodes)
EqualIgnoringCase(s, t) == s = t \/ {s, t} = {"a", "A"}
Folded(t) == IF EqualIgnoringCase(t, "A") THEN "A" ELSE "B"
SameDepthAndKey(i, j) ==
  nodes[i].depth = nodes[j].depth /\ EqualIgnoringCase(nodes[i].text, nodes[j].text)
ShallowerBetween(i, j) ==
  \E k \in Visited : i < k /\ k < j /\ nodes[k].depth < nodes[j].depth
SameBetween(i, j) ==
  \E k \in Visited : i < k /\ k < j /\ SameDepthAndKey(k, j)
DiagnosticsAt(j) == {m \in 1..Len(messages) : messages[m].node = j}
AllAuthored == \A i \in Visited : ~generated(nodes[i])
StartOf(i) == <<nodes[i].start.line, nodes[i].start.column>>

\* C1 as stated: in a sequence of non-generated headings, whenever two
\* headings have the same depth and case-folded text and no shallower heading
\* lies between them, the second has exactly one diagnostic, and it cites the
\* start of the first.
C1_CitesFirst ==
  AllAuthored =>
    \A i, j \in Visited :
      (i < j /\ SameDepthAndKey(i, j) /\ ~ShallowerBetween(i, j)) =>
        /\ Cardinality(DiagnosticsAt(j)) = 1
        /\ \A m \in DiagnosticsAt(j) : messages[m].place = StartOf(i)

\* C1 (amended): in a sequence of non-generated headings, whenever two headings
\* have the same depth and case-folded text and no shallower heading lies
\* between them, the second has exactly one diagnostic, anchored at it, and
\* the diagnostic cites the start (line:column) of the nearest preceding
\* heading of that depth and text: the first of the two when no further such
\* heading lies between them.
C1_CitesNearest ==
  AllAuthored =>
    \A i, j \in Visited :
      (i < j /\ SameDepthAndKey(i, j) /\ ~ShallowerBetween(i, j)) =>
        /\ Cardinality(DiagnosticsAt(j)) = 1
        /\ ~SameBetween(i, j) =>
             \A m \in DiagnosticsAt(j) : messages[m].place = StartOf(i)
        /\ \A m \in DiagnosticsAt(j) :
             \E c \in Visited :
               /\ i <= c /\ c < j /\ SameDepthAndKey(c, j) /\ ~SameBetween(c, j)
               /\ messages[m].place = StartOf(c)

\* C1 witness: authored headings "a" and "A" of one depth with a deeper heading
\* (and nothing shallower) between them; the second carries the diagnostic.
C1_Witness ==
  /\ AllAuthored
  /\ \E i, j \in Visited :
       /\ i + 1 < j /\ SameDepthAndKey(i, j) /\ nodes[i].text # nodes[j].text
       /\ ~ShallowerBetween(i, j) /\ ~SameBetween(i, j)
       /\ \A k \in Visited : (i < k /\ k < j) => nodes[k].depth > nodes[j].depth
       /\ \E m \in DiagnosticsAt(j) : messages[m].place = StartOf(i)

\* C2 as stated: when a heading of depth equal to or shallower than d lies
\* between two headings of depth d with the same text, the second has no
\* diagnostic.
C2_EqualOrShallowerCloses ==
  \A i, j \in Visited :
    ( /\ i < j /\ SameDepthAndKey(i, j)
      /\ \E k \in Visited : i < k /\ k < j /\ nodes[k].depth <= nodes[j].depth )
    => DiagnosticsAt(j) = {}

\* C2 (amended): when a heading shallower than d lies between two headings of
\* depth d with the same text, and no heading of depth d with that text comes
\* after it and before the second, the second has no diagnostic: a heading is
\* compared with the entries of its own depth recorded since the last
\* shallower heading, and a heading of equal depth closes nothing.
C2_ShallowerCloses ==
  \A i, j \in Visited :
    ( /\ i < j /\ SameDepthAndKey(i, j)
      /\ \E k \in Visited :
           /\ i < k /\ k < j /\ nodes[k].depth < nodes[j].depth
           /\ ~SameBetween(k, j) )
    => DiagnosticsAt(j) = {}

\* C2 witness: two authored headings of one depth and text, a shallower one
\* between them, and no diagnostic at the second.
C2_Witness ==
  \E i, j \in Visited :
    /\ i < j /\ SameDepthAndKey(i, j)
    /\ ~generated(nodes[i]) /\ ~generated(nodes[j])
    /\ ShallowerBetween(i, j) /\ ~SameBetween(i, j)
    /\ DiagnosticsAt(j) = {}

\* C3: a generated heading is skipped entirely: visiting it changes neither
\* the scope stack nor the diagnostics, and no diagnostic cites a generated
\* heading as the duplicate.
C3_GeneratedSkipped ==
  [][ /\ ( /\ Len(nodes') = Len(nodes) + 1
           /\ generated(nodes'[Len(nodes')]) )
         => (stack' = stack /\ messages' = messages)
      /\ \A m \in 1..Len(messages') :
           ~generated(nodes'[messages'[m].duplicate]) ]_vars

\* C9: the stack starts empty; visiting a heading of depth d leaves it with
\* length exactly d, keeps every slot below d as it was (a hole stays a
\* hole), and slot d is the former scope of depth d (an empty one when there
\* was none) with only the heading's own key changed.
C9_ScopeStack ==
  /\ stack = <<>>
  /\ [][ Len(nodes') = Len(nodes) + 1 =>
           LET h == nodes'[Len(nodes')]
               d == h.depth
           IN /\ Len(stack') = d
              /\ \A i \in 1..(d - 1) : stack'[i] = SlotAt(stack, i - 1)
              /\ stack'[d].alloc
              /\ \A k \in Keys \ {Folded(h.text)} :
                   stack'[d].map[k] = SlotAt(stack, d - 1).map[k] ]_vars

\* C9 witness: a depth-3 heading directly after a depth-1 heading left slot 2
\* a hole, and a later depth-1 heading cut the stack back to length 1.
C9_Witness ==
  \E i \in Visited :
    /\ i + 2 <= Len(nodes)
    /\ nodes[i].depth = 1 /\ nodes[i + 1].depth = 3
    /\ nodes[Len(nodes)].depth = 1
    /\ Len(stack) = 1

\* The heading a later heading j of the same depth and key is compared with:
\* the most recent one, with no shallower heading since.
Latest(c, j) ==
  /\ c < j /\ SameDepthAndKey(c, j)
  /\ ~SameBetween(c, j) /\ ~ShallowerBetween(c, j)

\* C10: the heading just visited is recorded under its key in the scope of its
\* depth, diagnostic or not; every diagnostic cites the most recent earlier
\* heading of the same depth and key with no shallower heading since; and
\* every authored heading that has such a predecessor has its diagnostic,
\* whatever was reported before it.
C10_MostRecent ==
  /\ nodes # <<>> =>
       stack[nodes[Len(nodes)].depth].map[Folded(nodes[Len(nodes)].text)] = Len(nodes)
  /\ \A m \in 1..Len(messages) :
       /\ Latest(messages[m].duplicate, messages[m].node)
       /\ \/ messages[m].place \in PlaceOutcomes
             /\ generated(nodes[messages[m].duplicate])
          \/ messages[m].place = StartOf(messages[m].duplicate)
             /\ ~generated(nodes[messages[m].duplicate])
  /\ \A j \in Visited :
       Cardinality(DiagnosticsAt(j)) =
         IF ~generated(nodes[j]) /\ \E c \in Visited : Latest(c, j) THEN 1 ELSE 0

\* C10 witness: three authored headings of one depth and key in one section;
\* the second cites the first and the third cites the second.
C10_Witness ==
  \E a, b, c \in Visited :
    /\ a < b /\ b < c /\ AllAuthored
    /\ Latest(a, b) /\ Latest(b, c)
    /\ \E m, n \in 1..Len(messages) :
         /\ m < n
         /\ messages[m].node = b /\ messages[m].place = StartOf(a)
         /\ messages[n].node = c /\ messages[n].place = StartOf(b)

\* ------------------------------------------------------------------------
\* no-heading-indent
\* ------------------------------------------------------------------------

\* Longest stream of heading nodes given to no-heading-indent.
MaxIndentHeadings == 3

\* parents[parents.length - 1].type; "none" when the heading is the tree itself.
ParentTypes == {"root", "blockquote", "listItem", "none"}

\* Start columns of a heading: up to three spaces of indent.
Columns == {1, 2, 3, 4}

\* Mutant of pluralize: the plural whatever the count.
pluralizeAlways(word, count) == "spaces"

\* pluralize('space', count)
pluralize(word, count) == IF count = 1 THEN "space" ELSE "spaces"

IndentInputs ==
  LET n == Len(nodes) + 1 IN
  { [type |-> "heading", parent |-> pt, start |-> p] :
      pt \in ParentTypes,
      p \in {NoPoint} \cup {[line |-> n, column |-> c] : c \in Columns} }

\* The visitor of no-heading-indent.
VisitIndentHeading(node) ==
  LET start == node.start
      actual == start.column - 1
      self == Len(nodes) + 1
  IN /\ nodes' = Append(nodes, node)
     /\ messages' =
          IF start = NoPoint \/ node.parent = "none" \/ node.parent # "root"
            THEN messages
          ELSE IF actual # 0
            THEN Append(messages,
                   [node |-> self, place |-> start,
                    unexpected |-> actual,
                    unexpectedWord |-> pluralize("space", actual),
                    remove |-> actual,
                    removeWord |-> pluralize("space", actual)])
          ELSE messages
     /\ UNCHANGED <<stack, option, preferred, pc>>

InitIndent == InitDup

NextIndent ==
  /\ Len(nodes) < MaxIndentHeadings
  /\ \E node \in IndentInputs : VisitIndentHeading(node)

SpecIndent == InitIndent /\ [][NextIndent]_vars

\* C8: a heading with a start position whose parent is the root has a
\* diagnostic exactly when n = start column - 1 is not 0, and exactly one; the
\* diagnostic reports n as the unexpected count and as the count to remove,
\* with "space" for n = 1 and "spaces" otherwise; a heading with another
\* parent or without a start position has none; this holds for every heading
\* visited, those after a diagnostic included.
C8_HeadingIndent ==
  \A j \in Visited :
    LET n == nodes[j].start.column - 1
        checked == nodes[j].start # NoPoint /\ nodes[j].parent = "root"
        word == IF n = 1 THEN "space" ELSE "spaces"
    IN /\ Cardinality(DiagnosticsAt(j)) = IF checked /\ n # 0 THEN 1 ELSE 0
       /\ \A m \in DiagnosticsAt(j) :
            /\ messages[m].unexpected = n /\ messages[m].remove = n
            /\ messages[m].unexpectedWord = word
            /\ messages[m].removeWord = word
            /\ messages[m].place = nodes[j].start

\* C8 witness: a root heading after 3 spaces reported with "spaces", then an
\* indented heading in a block quote without a diagnostic, then a root heading
\* after 1 space reported with "space".
C8_Witness ==
  /\ Len(nodes) = 3 /\ Len(messages) = 2
  /\ nodes[1].parent = "root" /\ nodes[1].start.column = 4
  /\ nodes[2].parent = "blockquote" /\ nodes[2].start.column = 3
  /\ nodes[3].parent = "root" /\ nodes[3].start.column = 2
  /\ messages[1].node = 1 /\ messages[1].remove = 3
  /\ messages[1].removeWord = "spaces"
  /\ messages[2].node = 3 /\ messages[2].remove = 1
  /\ messages[2].removeWord = "space"

\* ------------------------------------------------------------------------
\* first-heading-level
\* ------------------------------------------------------------------------

\* Longest stream of nodes given to first-heading-level.
MaxFirstNodes == 3

\* Option values: absent, a boolean, or a number (0 is falsy).
Bool(b) == [kind |-> "boolean", num |-> 0, str |-> "", bool |-> b]
Num(n) == [kind |-> "number", num |-> n, str |-> "", bool |-> FALSE]
Str(t) == [kind |-> "string", num |-> 0, str |-> t, bool |-> FALSE]
FirstOptions == {NoOption, Bool(TRUE), Bool(FALSE)} \cup {Num(n) : n \in 0..3}

\* JavaScript truthiness of an option value.
Truthy(v) ==
  \/ v.kind = "boolean" /\ v.bool
  \/ v.kind = "number" /\ v.num # 0
  \/ v.kind = "string" /\ v.str # ""

\* Mutant of PreferredOf: `option || 1`, without the test for true.
PreferredOfAnyTruthy(opt) == IF Truthy(opt) THEN opt ELSE Num(1)

\* const preferred = option && option !== true ? option : 1
PreferredOf(opt) == IF Truthy(opt) /\ opt # Bool(TRUE) THEN opt ELSE Num(1)

\* The values of html nodes, as the tag openers in them, in order.
HtmlValues == {<<"<div">>, <<"<h2">>, <<"<hr", "<h3">>, <<"<h1", "<h2">>}

\* The digit captured by /<h([1-6])/ in one tag opener, 0 when it does not match.
HeadingTag(tag) ==
  CASE tag = "<h1" -> 1 [] tag = "<h2" -> 2 [] tag = "<h3" -> 3 [] OTHER -> 0

\* infer(node): Number() of the first match of `re`, 0 for undefined.
RECURSIVE infer(_)
infer(value) ==
  IF value = <<>> THEN 0
  ELSE IF HeadingTag(Head(value)) # 0 THEN HeadingTag(Head(value))
  ELSE infer(Tail(value))

\* Mutant of RankOf: html nodes are not looked at.
RankOfHeadingOnly(node) == IF node.type = "heading" THEN node.depth ELSE 0

\* `rank` of the visitor: the depth of a heading, infer() of an html node,
\* 0 (undefined) for anything else.
RankOf(node) ==
  IF node.type = "heading" THEN node.depth
  ELSE IF node.type = "html" THEN infer(node.value)
  ELSE 0

FirstInputs ==
  LET n == Len(nodes) + 1
      body == {[type |-> t, depth |-> 0, value |-> <<>>] : t \in {"root", "paragraph"}}
              \cup {[type |-> "heading", depth |-> d, value |-> <<>>] : d \in Depths}
              \cup {[type |-> "html", depth |-> 0, value |-> v] : v \in HtmlValues}
  IN { [type |-> b.type, depth |-> b.depth, value |-> b.value, start |-> p] :
         b \in body, p \in {NoPoint, [line |-> n, column |-> 1]} }

\* The rule body before the traversal.
StartFirst ==
  /\ pc = "start"
  /\ preferred' = PreferredOf(option)
  /\ pc' = "visit"
  /\ UNCHANGED <<nodes, messages, stack, option>>

\* The visitor of first-heading-level.
VisitFirst(node) ==
  LET rank == RankOf(node)
      self == Len(nodes) + 1
      found == ~generated(node) /\ rank # 0
  IN /\ pc = "visit"
     /\ nodes' = Append(nodes, node)
     /\ messages' =
          IF found /\ Num(rank) # preferred
            THEN Append(messages, [node |-> self, level |-> preferred])
            ELSE messages
     /\ pc' = IF found THEN "exit" ELSE "visit"
     /\ UNCHANGED <<stack, option, preferred>>

InitFirst ==
  /\ nodes = <<>>
  /\ messages = <<>>
  /\ stack = <<>>
  /\ option \in FirstOptions
  /\ preferred = NoOption
  /\ pc = "start"

NextFirst ==
  \/ StartFirst
  \/ /\ Len(nodes) < MaxFirstNodes
     /\ \E node \in FirstInputs : VisitFirst(node)

SpecFirst == InitFirst /\ [][NextFirst]_vars

\* Vocabulary of C4 and C5.
HasHeadingTag(value) ==
  \E i \in 1..Len(value) : value[i] \in {"<h1", "<h2", "<h3"}
FirstTagDigit(value) ==
  LET i == CHOOSE k \in 1..Len(value) :
             /\ value[k] \in {"<h1", "<h2", "<h3"}
             /\ \A l \in 1..(k - 1) : value[l] \notin {"<h1", "<h2", "<h3"}
  IN CASE value[i] = "<h1" -> 1 [] value[i] = "<h2" -> 2 [] OTHER -> 3
RankBearing(i) ==
  \/ nodes[i].type = "heading"
  \/ nodes[i].type = "html" /\ HasHeadingTag(nodes[i].value)
Qualifies(i) == ~generated(nodes[i]) /\ RankBearing(i)
FirstQualifying(i) == Qualifies(i) /\ \A k \in 1..(i - 1) : ~Qualifies(k)
RankAt(i) ==
  IF nodes[i].type = "heading" THEN nodes[i].depth
  ELSE FirstTagDigit(nodes[i].value)
PreferredRank ==
  IF option.kind = "number" /\ option.num # 0 THEN option.num ELSE 1

\* C4: a run has at most one diagnostic; there is one exactly when a first
\* non-generated heading or heading-tag html node has been visited and its
\* rank (the depth, or the digit of the first heading tag) differs from the
\* preferred rank P (the option, or 1 when the option is absent, falsy or
\* true); it is anchored at that node and names P.  Nodes passed over and
\* trees without a qualifying node give no diagnostic.
C4_FirstHeadingLevel ==
  /\ Len(messages) <= 1
  /\ Len(messages) = 1 <=>
       \E q \in Visited : FirstQualifying(q) /\ RankAt(q) # PreferredRank
  /\ \A m \in 1..Len(messages) :
       /\ messages[m].node \in Visited
       /\ FirstQualifying(messages[m].node)
       /\ messages[m].level = Num(PreferredRank)

\* C4 witness: with the option absent, a paragraph and an html node without a
\* heading tag are passed over and the html node <h2 after them is reported.
C4_Witness ==
  /\ option = NoOption /\ Len(nodes) = 3
  /\ nodes[1].type = "paragraph" /\ ~generated(nodes[1])
  /\ nodes[2].type = "html" /\ nodes[2].value = <<"<div">> /\ ~generated(nodes[2])
  /\ nodes[3].type = "html" /\ nodes[3].value = <<"<h2">>
  /\ messages = <<[node |-> 3, level |-> Num(1)]>>

\* C5 as stated: the traversal stops at the first rank-bearing node, generated
\* or not, so that node is the last one visited; and when it is generated the
\* run has no diagnostic.
C5_StopsAtGenerated ==
  \A r \in Visited :
    (RankBearing(r) /\ \A k \in 1..(r - 1) : ~RankBearing(k)) =>
      /\ pc = "exit" /\ r = Len(nodes)
      /\ generated(nodes[r]) => messages = <<>>

\* C5 (amended): the traversal stops at the first rank-bearing node that is
\* not generated and no node after it is visited or reported; a generated
\* rank-bearing node is passed over like any other node, without a diagnostic
\* and without stopping the traversal, so a later authored heading still
\* decides the run.
C5_StopsAtAuthored ==
  /\ \A i \in Visited : Qualifies(i) => i = Len(nodes)
  /\ pc = "exit" <=> (nodes # <<>> /\ Qualifies(Len(nodes)))
  /\ \A m \in 1..Len(messages) :
       messages[m].node = Len(nodes) /\ ~generated(nodes[messages[m].node])
  /\ \A i \in Visited :
       (i < Len(nodes) \/ generated(nodes[i])) => DiagnosticsAt(i) = {}

\* C5 witness: a generated heading was passed over and the authored heading
\* after it stopped the traversal and was reported.
C5_Witness ==
  /\ Len(nodes) = 2 /\ pc = "exit"
  /\ nodes[1].type = "heading" /\ generated(nodes[1])
  /\ nodes[2].type = "heading" /\ ~generated(nodes[2])
  /\ \E m \in 1..Len(messages) : messages[m].node = 2

\* ------------------------------------------------------------------------
\* unordered-list-marker-style
\* ------------------------------------------------------------------------

\* Most list items, over all lists, given to unordered-list-marker-style.
MaxItems == 3

\* Option values: absent, or a string (the documented ones, the empty
\* string, a string that is no marker, the string 'undefined').
MarkerOptions ==
  {NoOption}
  \cup {Str(t) : t \in {"consistent", "-", "*", "+", "", "x", "undefined"}}

\* The key a value is looked up under in `styles`: String(value).
PropertyKey(v) == IF v.kind = "undefined" THEN "undefined" ELSE v.str

\* const styles = {'-': true, '*': true, '+': true, undefined: true}
styles == {"-", "*", "+", "undefined"}

\* typeof option === 'string' && option !== 'consistent' ? option : undefined
PreferredStyleOf(opt) ==
  IF opt.kind = "string" /\ opt # Str("consistent") THEN opt ELSE NoOption

\* The source text of a list item from its start to the start of its first
\* child, as tokens: the bullet, white space, a checkbox.
ItemPrefixes ==
  {<<"*", " ">>, <<"-", " ">>, <<"+", " ", " ">>, <<"-", " ", "[x]", " ">>}

\* .replace(/\[[x ]?]\s*$/i, ''): a checkbox at the end, with the white space
\* after it, is removed.
RECURSIVE StripTrailingSpace(_)
StripTrailingSpace(raw) ==
  IF raw # <<>> /\ raw[Len(raw)] = " "
    THEN StripTrailingSpace(SubSeq(raw, 1, Len(raw) - 1))
    ELSE raw
StripCheckbox(raw) ==
  LET t == StripTrailingSpace(raw)
  IN IF t # <<>> /\ t[Len(t)] \in {"[x]", "[X]", "[ ]", "[]"}
       THEN SubSeq(t, 1, Len(t) - 1) ELSE raw

\* .replace(/\s/g, ''): all white space is removed.
StripSpace(raw) == SelectSeq(raw, LAMBDA c : c # " ")

\* The text of a token sequence that is empty or one token.
Text(raw) == IF raw = <<>> THEN "" ELSE raw[1]

\* `marker` of a list item.  An item without children has no first child:
\* pointStart(undefined).offset is null where pointStart gives a point of
\* nulls, so the slice, and the marker, is empty.
MarkerOf(item) ==
  IF item.head THEN Text(StripSpace(StripCheckbox(item.prefix))) ELSE ""

\* The list items the parser can hand over: generated ones, items with
\* content, and items without content (children = []).  Of an item's
\* position the rule reads only the offset its prefix starts at.
ItemInputs ==
  {[start |-> NoPoint, prefix |-> <<"*", " ">>, head |-> TRUE]}
  \cup {[start |-> [line |-> 1, column |-> 1], prefix |-> x, head |-> TRUE] :
          x \in ItemPrefixes}
  \cup {[start |-> [line |-> 1, column |-> 1], prefix |-> <<"-">>, head |-> FALSE]}

RECURSIVE SeqsUpTo(_, _)
SeqsUpTo(S, n) ==
  IF n = 0 THEN {<<>>}
  ELSE LET shorter == SeqsUpTo(S, n - 1)
       IN shorter \cup {Append(q, x) : q \in {r \in shorter : Len(r) = n - 1}, x \in S}

RECURSIVE ItemCount(_)
ItemCount(lists) ==
  IF lists = <<>> THEN 0 ELSE Len(Head(lists).children) + ItemCount(Tail(lists))

ListInputs ==
  { [type |-> "list", ordered |-> o, children |-> c] :
      o \in BOOLEAN,
      c \in SeqsUpTo(ItemInputs, MaxItems - ItemCount(nodes)) \ {<<>>} }

\* The while loop over node.children, from child `index` on, as the state it
\* leaves: preferred, the messages, and whether a TypeError ended it.
\* `missing` is what reading the start of an absent first child does: "empty"
\* (a point of nulls) or "throws" (pointStart returned undefined).
RECURSIVE ProcessChildren(_, _, _, _, _, _)
ProcessChildren(list, children, index, pref, msgs, missing) ==
  IF index > Len(children)
    THEN [preferred |-> pref, messages |-> msgs, threw |-> FALSE]
  ELSE
    LET child == children[index]
        marker == MarkerOf(child)
    IN IF generated(child)
         THEN ProcessChildren(list, children, index + 1, pref, msgs, missing)
       ELSE IF ~child.head /\ missing = "throws"
         THEN [preferred |-> pref, messages |-> msgs, threw |-> TRUE]
       ELSE IF Truthy(pref)
         THEN ProcessChildren(list, children, index + 1, pref,
                IF marker # pref.str
                  THEN Append(msgs, [node |-> <<list, index>>, preferred |-> pref.str])
                  ELSE msgs,
                missing)
       ELSE ProcessChildren(list, children, index + 1, Str(marker), msgs, missing)

\* The rule body before the traversal: the option is checked, file.fail throws.
StartMarker ==
  /\ pc = "start"
  /\ LET p == PreferredStyleOf(option)
     IN /\ preferred' = p
        /\ pc' = IF PropertyKey(p) \notin styles THEN "failed" ELSE "visit"
  /\ UNCHANGED <<nodes, messages, stack, option>>

\* The visitor of unordered-list-marker-style, for one list node.
VisitList(node, missing) ==
  LET self == Len(nodes) + 1
      after == ProcessChildren(self, node.children, 1, preferred, messages, missing)
  IN /\ pc = "visit"
     /\ nodes' = Append(nodes, node)
     /\ IF node.ordered
          THEN UNCHANGED <<messages, preferred, pc>>
          ELSE /\ messages' = after.messages
               /\ preferred' = after.preferred
               /\ pc' = IF after.threw THEN "threw" ELSE "visit"
     /\ UNCHANGED <<stack, option>>

InitMarker ==
  /\ nodes = <<>>
  /\ messages = <<>>
  /\ stack = <<>>
  /\ option \in MarkerOptions
  /\ preferred = NoOption
  /\ pc = "start"

NextMarker ==
  \/ StartMarker
  \/ /\ ItemCount(nodes) < MaxItems
     /\ \E node \in ListInputs : \E missing \in {"empty", "throws"} :
          VisitList(node, missing)

SpecMarker == InitMarker /\ [][NextMarker]_vars

\* Vocabulary of C6 and C7.
DocumentedOptions == {NoOption, Str("consistent"), Str("-"), Str("*"), Str("+")}
ConsistentOptions == {NoOption, Str("consistent")}
Items == {p \in (1..MaxItems) \X (1..MaxItems) :
            p[1] <= Len(nodes) /\ p[2] <= Len(nodes[p[1]].children)}
ItemAt(p) == nodes[p[1]].children[p[2]]
Processed == {p \in Items : ~nodes[p[1]].ordered /\ ~generated(ItemAt(p))}
Before(p, q) == p[1] < q[1] \/ (p[1] = q[1] /\ p[2] < q[2])
FirstProcessed(p) == p \in Processed /\ \A q \in Processed : q = p \/ Before(p, q)
MarkerDiagnosticsAt(p) == {m \in 1..Len(messages) : messages[m].node = p}

\* C6: the rule accepts an absent option, 'consistent', '-', '*' and '+' and
\* nothing else: for every other option the run fails before a node is
\* visited, with no diagnostic, and for these five it never fails.
C6_OnlyDocumentedOptions ==
  pc # "start" =>
    IF option \in DocumentedOptions
      THEN pc # "failed"
      ELSE pc = "failed" /\ nodes = <<>> /\ messages = <<>>

\* C7: with the default configuration, once a non-generated item of a
\* non-ordered list has been processed, preferred is the marker of the first
\* such item (as the rule extracts it), in every later state; each such item
\* after the first has exactly one diagnostic naming that marker when its own
\* marker differs and none when it matches; the first item, generated items
\* and items of ordered lists have none, and before any such item preferred
\* is not set.
C7_SetOnceToFirstMarker ==
  (option \in ConsistentOptions /\ pc = "visit") =>
    /\ Processed = {} => (~Truthy(preferred) /\ messages = <<>>)
    /\ \A f \in Processed :
         FirstProcessed(f) =>
           /\ preferred = Str(MarkerOf(ItemAt(f)))
           /\ \A p \in Items :
                Cardinality(MarkerDiagnosticsAt(p)) =
                  IF /\ p \in Processed /\ p # f
                     /\ MarkerOf(ItemAt(p)) # MarkerOf(ItemAt(f))
                    THEN 1 ELSE 0
           /\ \A m \in 1..Len(messages) :
                messages[m].preferred = MarkerOf(ItemAt(f))

====
